---- MODULE Spec2Model ----
(***************************************************************************)
(* Model of the in-memory job queue of the audio workflow API              *)
(* (src/api/job_queue.py), of the GET /job handler that reads it           *)
(* (src/api/server.py) and of the collaborators' return contracts          *)
(* (src/modules/transcriber.py, summarizer.py, judge.py).                  *)
(*                                                                         *)
(* Python objects are modelled by reference: objs is the heap of Job       *)
(* objects, jobs is the key set of the dict self.jobs.  A reader that      *)
(* obtained a Job from get_job_status keeps reading the live object.       *)
(* Every "with self._lock" block that writes more than one field is        *)
(* modelled write by write, the lock being held in between.                *)
(*                                                                         *)
(* Time is a tick counter; TicksPerHour ticks make an hour, HoursPerDay    *)
(* hours a day.  datetime.now() reads the counter.                         *)
(***************************************************************************)
EXTENDS Integers, Sequences, FiniteSets, TLC

\* ---------------------------------------------------------------- bounds
MaxJobs == 3          \* number of submit_job calls explored
ReadJobs == 2         \* ... in the specification with the GET /job handler
MaxElapsed == 1       \* ticks the clock may advance beyond StartClock
NumCallers == 2       \* concurrent callers of submit_job
TicksPerHour == 2     \* resolution of the modelled clock
CleanupWindow == 4    \* how long before StartClock a cleanup scenario may start
TicksPerSecond == 2   \* resolution of the times of turns and segments
MaxTurns == 3         \* speaker turns in a diarization
MaxSegments == 3      \* segments in a transcription result
MaxRatioSegments == 20  \* segments where only the ratios of the texts matter

\* ------------------------------------------------------ program constants
PoolSize == 2         \* ThreadPoolExecutor(max_workers=2)
DefaultMaxAge == 24   \* cleanup_old_jobs(max_age_hours=24)
SleepHours == 1       \* time.sleep(3600)
HoursPerDay == 24     \* datetime.hour ranges over 0..23
MinSpeakerDuration == 2   \* min_speaker_duration = 2.0 (seconds)

TicksPerDay == HoursPerDay * TicksPerHour
\* the JobQueue is constructed on day 1, in the last tick before midnight
StartClock == 2 * TicksPerDay - 1
MaxClock == StartClock + MaxElapsed

Ids == 1..MaxJobs
\* mutant: the pool is created with one thread more
MoreWorkers == 1..(PoolSize + 1)
Workers == 1..PoolSize
Callers == 1..NumCallers
Sweepers == {"api", "bg"}
\* the max_age_hours handed to cleanup_old_jobs
MaxAges == {0, 1, DefaultMaxAge}

\* JobStatus
QUEUED == "queued"
PROCESSING == "processing"
COMPLETED == "completed"
FAILED == "failed"
JobStatus == {QUEUED, PROCESSING, COMPLETED, FAILED}
Terminal == {COMPLETED, FAILED}

\* Optional fields
None == "None"
\* None where a reference to a Job is expected
NoJob == 0
Result == "result"

\* progress texts
PSubmitted == "Job submitted, waiting to start processing..."
PInit == "Initializing workflow components..."
PTranscribing == "Transcribing audio..."
PSummary == "Generating summary..."
PAnalyzing == "Analyzing situation..."
PCompleted == "Processing completed successfully"

\* exception messages
ETranscription == "Transcription failed"
ESummarization == "Summarization failed"
EJudgment == "Judgment analysis failed"
EInit == "component construction error"
EKey == "KeyError"

\* f"Processing failed: {error_msg}"
PFailed(error_msg) ==
  CASE error_msg = ETranscription -> "Processing failed: Transcription failed"
    [] error_msg = ESummarization -> "Processing failed: Summarization failed"
    [] error_msg = EJudgment -> "Processing failed: Judgment analysis failed"
    [] error_msg = EInit -> "Processing failed: component construction error"
    [] error_msg = EKey -> "Processing failed: KeyError"

VARIABLES
  clock,        \* the wall clock, in ticks
  objs,         \* heap of Job objects, by job_id
  held,         \* history: the (status, progress, result, error) each Job has held
  jobs,         \* keys of the dict self.jobs
  nextId,       \* next fresh job id (uuid4)
  queue,        \* work queue of the ThreadPoolExecutor
  lock,         \* self._lock: 0 when free, else the worker holding it
  initialized,  \* self._components_initialized
  built,        \* how often the three components have been constructed
  initFailed,   \* a component constructor has raised
  cpc, cjob,    \* submit_job callers: position, job just stored
  wpc, wjob, wtext, werr,   \* workers: position, job_id, transcript, exception
  rpc, rjob, obs,           \* GET /job handler: position, Job reference, fields read
  spc, sage, snow1, scut,   \* cleanup_old_jobs: position, max_age_hours, first
                            \* datetime.now(), cutoff_time
  swake,                    \* cleanup_worker: start of the current sleep
  apc,                      \* transcribe_audio: position in the speaker attribution
  diarization,              \* what the diarization pipeline returned
  segments,                 \* the segments of the transcription result
  dfiltered,                \* what DiarizationService.diarize returned
  use_rule_based,           \* the assignment transcribe_audio decided on
  formatted_transcription,  \* the labelled transcript, line by line
  dcall                     \* _get_dominant_speaker calls of the pool threads:
                            \* position, window, next track, the local dict
                            \* speaker_durations, the speaker returned

vars == <<clock, objs, held, jobs, nextId, queue, lock, initialized, built, initFailed,
          cpc, cjob, wpc, wjob, wtext, werr, rpc, rjob, obs,
          spc, sage, snow1, scut, swake,
          apc, diarization, segments, dfiltered, use_rule_based, formatted_transcription,
          dcall>>

timeVars == <<clock>>
heapVars == <<objs, held>>
tableVars == <<objs, held, jobs, nextId>>
initVars == <<initialized, built, initFailed>>
callerVars == <<cpc, cjob>>
workerVars == <<wpc, wjob, wtext, werr>>
readerVars == <<rpc, rjob, obs>>
sweepVars == <<spc, sage, snow1, scut, swake>>
attrVars == <<apc, diarization, segments, dfiltered, use_rule_based, formatted_transcription,
             dcall>>

\* ------------------------------------------------------------------ Job
\* Job(job_id, status=QUEUED, created_at=now, progress=...), result and
\* error default to None
Job(now) ==
  [status |-> QUEUED, created_at |-> now, result |-> None, error |-> None,
   progress |-> PSubmitted]

\* the fields of a Job that GET /job reports and the worker updates
View(job) ==
  [status |-> job.status, progress |-> job.progress, result |-> job.result,
   error |-> job.error]

NoObs == [status |-> None, progress |-> None, result |-> None, error |-> None]

\* self.jobs[job_id].<field> = value
SetField(job_id, field, value) ==
  /\ objs' = [objs EXCEPT ![job_id][field] = value]
  /\ held' = [held EXCEPT ![job_id] = @ \cup {View([objs[job_id] EXCEPT ![field] = value])}]

\* transcriber.py: diarize returned None (lines 93-95, 183-186)
NoDiarization == [avail |-> FALSE, turns |-> << >>]
\* transcriber.py: formatted_transcription is not assigned yet
NoTranscription == [status |-> "none", lines |-> << >>]

\* a thread that is not in _get_dominant_speaker: no window, no dict, nothing
\* returned
NoCall ==
  [pc |-> "idle", start_time |-> 0, end_time |-> 0, track |-> 0,
   speaker_durations |-> << >>,
   speaker |-> [kind |-> "none", n |-> 0, label |-> [speaker |-> FALSE, rest |-> << >>]]]

\* no transcription under way
AttrOff ==
  /\ apc = "off"
  /\ diarization = NoDiarization
  /\ segments = << >>
  /\ dfiltered = NoDiarization
  /\ use_rule_based = FALSE
  /\ formatted_transcription = NoTranscription
  /\ dcall = [w \in Workers |-> NoCall]

\* every thread at its start: nobody in submit_job, the pool idle, the lock
\* free, no request being answered, no sweep under way, cleanup_worker not
\* started
Idle ==
  /\ queue = << >>
  /\ lock = 0
  /\ cpc = [c \in Callers |-> "idle"]
  /\ cjob = [c \in Callers |-> NoJob]
  /\ wpc = [w \in Workers |-> "idle"]
  /\ wjob = [w \in Workers |-> NoJob]
  /\ wtext = [w \in Workers |-> None]
  /\ werr = [w \in Workers |-> None]
  /\ rpc = "idle"
  /\ rjob = NoJob
  /\ obs = NoObs
  /\ spc = [s \in Sweepers |-> IF s = "bg" THEN "off" ELSE "idle"]
  /\ sage = [s \in Sweepers |-> 0]
  /\ snow1 = [s \in Sweepers |-> 0]
  /\ scut = [s \in Sweepers |-> 0]
  /\ swake = 0

\* JobQueue.__init__, lines 38-47
Init ==
  /\ clock = StartClock
  /\ objs = << >>
  /\ held = << >>
  /\ jobs = {}
  /\ nextId = 1
  /\ initialized = FALSE
  /\ built = 0
  /\ initFailed = FALSE
  /\ Idle
  /\ AttrOff

\* ----------------------------------------------------------------- time
Tick ==
  /\ clock < MaxClock
  /\ clock' = clock + 1
  /\ UNCHANGED <<attrVars, tableVars, queue, lock, initVars, callerVars, workerVars,
                 readerVars, sweepVars>>

\* ----------------------------------------------------------- submit_job
\* mutant: the Job is created but not put into self.jobs
StoreUnlisted(c) ==
  /\ cpc[c] = "idle"
  /\ nextId <= MaxJobs
  /\ lock = 0
  /\ objs' = objs @@ (nextId :> Job(clock))
  /\ held' = held @@ (nextId :> {View(Job(clock))})
  /\ nextId' = nextId + 1
  /\ cpc' = [cpc EXCEPT ![c] = "stored"]
  /\ cjob' = [cjob EXCEPT ![c] = nextId]
  /\ UNCHANGED <<attrVars, timeVars, jobs, queue, lock, initVars, workerVars, readerVars, sweepVars>>

\* lines 67-77: fresh id, and under the lock the Job is created and stored
StoreJob(c) ==
  /\ cpc[c] = "idle"
  /\ nextId <= MaxJobs
  /\ lock = 0
  /\ objs' = objs @@ (nextId :> Job(clock))
  /\ held' = held @@ (nextId :> {View(Job(clock))})
  /\ jobs' = jobs \cup {nextId}
  /\ nextId' = nextId + 1
  /\ cpc' = [cpc EXCEPT ![c] = "stored"]
  /\ cjob' = [cjob EXCEPT ![c] = nextId]
  /\ UNCHANGED <<attrVars, timeVars, queue, lock, initVars, workerVars, readerVars, sweepVars>>

\* mutant: the call is handed to the pool twice
DispatchTwice(c) ==
  /\ cpc[c] = "stored"
  /\ queue' = Append(Append(queue, cjob[c]), cjob[c])
  /\ cpc' = [cpc EXCEPT ![c] = "idle"]
  /\ cjob' = [cjob EXCEPT ![c] = NoJob]
  /\ UNCHANGED <<attrVars, timeVars, tableVars, lock, initVars, workerVars, readerVars, sweepVars>>

\* lines 82-84: executor.submit puts the call on the pool's queue, return
DispatchJob(c) ==
  /\ cpc[c] = "stored"
  /\ queue' = Append(queue, cjob[c])
  /\ cpc' = [cpc EXCEPT ![c] = "idle"]
  /\ cjob' = [cjob EXCEPT ![c] = NoJob]
  /\ UNCHANGED <<attrVars, timeVars, tableVars, lock, initVars, workerVars, readerVars, sweepVars>>

submit_job(c) == StoreJob(c) \/ DispatchJob(c)

\* --------------------------------------------------------- _process_job
\* mutant: a call that a worker has taken stays on the pool's queue
TakeJobKeeps(w) ==
  /\ wpc[w] = "idle"
  /\ queue # << >>
  /\ wjob' = [wjob EXCEPT ![w] = Head(queue)]
  /\ wpc' = [wpc EXCEPT ![w] = "mark_processing"]
  /\ UNCHANGED <<attrVars, timeVars, tableVars, queue, lock, initVars, callerVars, wtext, werr,
                 readerVars, sweepVars>>

\* the ThreadPoolExecutor hands the oldest queued call to an idle worker
TakeJob(w) ==
  /\ wpc[w] = "idle"
  /\ queue # << >>
  /\ wjob' = [wjob EXCEPT ![w] = Head(queue)]
  /\ queue' = Tail(queue)
  /\ wpc' = [wpc EXCEPT ![w] = "mark_processing"]
  /\ UNCHANGED <<attrVars, timeVars, tableVars, lock, initVars, callerVars, wtext, werr,
                 readerVars, sweepVars>>

\* _process_job returns: its locals are gone, the worker is free for the next
\* queued call
Return(w) ==
  /\ wpc' = [wpc EXCEPT ![w] = "idle"]
  /\ wjob' = [wjob EXCEPT ![w] = NoJob]
  /\ wtext' = [wtext EXCEPT ![w] = None]
  /\ werr' = [werr EXCEPT ![w] = None]

\* lines 95-97: take the lock; if job_id in self.jobs: status = PROCESSING
MarkProcessing(w) ==
  /\ wpc[w] = "mark_processing"
  /\ lock = 0
  /\ IF wjob[w] \in jobs
       THEN /\ SetField(wjob[w], "status", PROCESSING)
            /\ lock' = w
            /\ wpc' = [wpc EXCEPT ![w] = "mark_progress"]
       ELSE /\ UNCHANGED <<heapVars, lock>>
            /\ wpc' = [wpc EXCEPT ![w] = "init_check"]
  /\ UNCHANGED <<attrVars, timeVars, jobs, nextId, queue, initVars, callerVars, wjob, wtext,
                 werr, readerVars, sweepVars>>

\* line 98: progress = "Initializing workflow components...", release the lock
MarkProgress(w) ==
  /\ wpc[w] = "mark_progress"
  /\ lock = w
  /\ SetField(wjob[w], "progress", PInit)
  /\ lock' = 0
  /\ wpc' = [wpc EXCEPT ![w] = "init_check"]
  /\ UNCHANGED <<attrVars, timeVars, jobs, nextId, queue, initVars, callerVars, wjob, wtext,
                 werr, readerVars, sweepVars>>

\* _initialize_components, lines 51-52: return if the flag is set
InitCheck(w) ==
  /\ wpc[w] = "init_check"
  /\ wpc' = [wpc EXCEPT ![w] = IF initialized THEN "set_transcribing" ELSE "construct"]
  /\ UNCHANGED <<attrVars, timeVars, tableVars, queue, lock, initVars, callerVars, wjob, wtext,
                 werr, readerVars, sweepVars>>

\* the constructors of lines 56-58 all return, or one of them raises
InitOutcomes == {"ok", "raise"}

\* mutant: a failed construction is remembered as done
ConstructCachesFailure(w, o) ==
  /\ wpc[w] = "construct"
  /\ IF o = "ok"
       THEN /\ built' = built + 1
            /\ initialized' = TRUE
            /\ UNCHANGED <<initFailed, werr>>
            /\ wpc' = [wpc EXCEPT ![w] = "set_transcribing"]
       ELSE /\ initFailed' = TRUE
            /\ initialized' = TRUE
            /\ UNCHANGED built
            /\ werr' = [werr EXCEPT ![w] = EInit]
            /\ wpc' = [wpc EXCEPT ![w] = "fail_status"]
  /\ UNCHANGED <<attrVars, timeVars, tableVars, queue, lock, callerVars, wjob, wtext,
                 readerVars, sweepVars>>

\* _initialize_components, lines 54-63: construct the three components and set
\* the flag; an exception of a constructor is logged and re-raised, whichever
\* constructor it comes from, and the flag stays unset
Construct(w, o) ==
  /\ wpc[w] = "construct"
  /\ IF o = "ok"
       THEN /\ built' = built + 1
            /\ initialized' = TRUE
            /\ UNCHANGED <<initFailed, werr>>
            /\ wpc' = [wpc EXCEPT ![w] = "set_transcribing"]
       ELSE /\ initFailed' = TRUE
            /\ UNCHANGED <<initialized, built>>
            /\ werr' = [werr EXCEPT ![w] = EInit]
            /\ wpc' = [wpc EXCEPT ![w] = "fail_status"]
  /\ UNCHANGED <<attrVars, timeVars, tableVars, queue, lock, callerVars, wjob, wtext,
                 readerVars, sweepVars>>

\* mutant: the lock taken for the progress update is kept during the call
\* that follows
SetProgressKeepsLock(w, at, text, to) ==
  /\ wpc[w] = at
  /\ lock = 0
  /\ IF wjob[w] \in jobs THEN SetField(wjob[w], "progress", text) ELSE UNCHANGED heapVars
  /\ lock' = w
  /\ wpc' = [wpc EXCEPT ![w] = to]
  /\ UNCHANGED <<attrVars, timeVars, jobs, nextId, queue, initVars, callerVars, wjob,
                 wtext, werr, readerVars, sweepVars>>

\* lines 106-108, 118-120, 130-132: under the lock, if job_id in self.jobs:
\* progress = text
SetProgress(w, at, text, to) ==
  /\ wpc[w] = at
  /\ lock = 0
  /\ IF wjob[w] \in jobs THEN SetField(wjob[w], "progress", text) ELSE UNCHANGED heapVars
  /\ wpc' = [wpc EXCEPT ![w] = to]
  /\ UNCHANGED <<attrVars, timeVars, jobs, nextId, queue, lock, initVars, callerVars, wjob,
                 wtext, werr, readerVars, sweepVars>>

SetTranscribing(w) == SetProgress(w, "set_transcribing", PTranscribing, "transcribe")
SetSummarizing(w) == SetProgress(w, "set_summarizing", PSummary, "summarize")
SetAnalyzing(w) == SetProgress(w, "set_analyzing", PAnalyzing, "judge")

\* raise Exception(msg): control passes to the except clause of line 161
Raise(w, msg) ==
  /\ werr' = [werr EXCEPT ![w] = msg]
  /\ wpc' = [wpc EXCEPT ![w] = "fail_status"]

\* transcribe_audio returns None (file missing, or any exception: lines
\* 365-367, 458-460), "" (no segments on the rule-based path: 501-503) or a
\* formatted transcript
TranscribeOutcomes == {"none", "empty", "text"}

\* running the speech models takes time: the call returns later than the job
\* was created
Elapsed(w) == clock > objs[wjob[w]].created_at

\* lines 112-115
Transcribe(w, r) ==
  /\ wpc[w] = "transcribe"
  /\ r # "none" => Elapsed(w)
  /\ IF r = "none"
       THEN Raise(w, ETranscription) /\ UNCHANGED wtext
       ELSE /\ wtext' = [wtext EXCEPT ![w] = r]
            /\ wpc' = [wpc EXCEPT ![w] = "set_summarizing"]
            /\ UNCHANGED werr
  /\ UNCHANGED <<attrVars, timeVars, tableVars, queue, lock, initVars, callerVars, wjob,
                 readerVars, sweepVars>>

\* summarize_text returns None for a blank transcript (summarizer.py 33-35),
\* for an empty model answer or an exception (78-84), else the summary
SummarizeOutcomes(text) == IF text = "empty" THEN {"none"} ELSE {"none", "text"}

\* lines 124-127
Summarize(w, r) ==
  /\ wpc[w] = "summarize"
  /\ r \in SummarizeOutcomes(wtext[w])
  /\ IF r = "none"
       THEN Raise(w, ESummarization)
       ELSE /\ wpc' = [wpc EXCEPT ![w] = "set_analyzing"]
            /\ UNCHANGED werr
  /\ UNCHANGED <<attrVars, timeVars, tableVars, queue, lock, initVars, callerVars, wjob, wtext,
                 readerVars, sweepVars>>

\* analyze_situation returns None or the parsed verdict (judge.py 35-100)
JudgeOutcomes == {"none", "dict"}

\* lines 136-139
Judge(w, r) ==
  /\ wpc[w] = "judge"
  /\ IF r = "none"
       THEN Raise(w, EJudgment)
       ELSE /\ wpc' = [wpc EXCEPT ![w] = "prepare_result"]
            /\ UNCHANGED werr
  /\ UNCHANGED <<attrVars, timeVars, tableVars, queue, lock, initVars, callerVars, wjob, wtext,
                 readerVars, sweepVars>>

\* lines 142-150: the result dict is built without the lock;
\* self.jobs[job_id].created_at raises KeyError when the key is gone
PrepareResult(w) ==
  /\ wpc[w] = "prepare_result"
  /\ IF wjob[w] \in jobs
       THEN /\ wpc' = [wpc EXCEPT ![w] = "complete_status"]
            /\ UNCHANGED werr
       ELSE Raise(w, EKey)
  /\ UNCHANGED <<attrVars, timeVars, tableVars, queue, lock, initVars, callerVars, wjob, wtext,
                 readerVars, sweepVars>>

\* first line of a final block (153-155, 165-167): take the lock and, if
\* job_id in self.jobs, write the status; else leave the block at once
WriteStatus(w, at, status, to) ==
  /\ wpc[w] = at
  /\ lock = 0
  /\ IF wjob[w] \in jobs
       THEN /\ SetField(wjob[w], "status", status)
            /\ lock' = w
            /\ wpc' = [wpc EXCEPT ![w] = to]
            /\ UNCHANGED <<wjob, wtext, werr>>
       ELSE /\ UNCHANGED <<heapVars, lock>>
            /\ Return(w)
  /\ UNCHANGED <<attrVars, timeVars, jobs, nextId, queue, initVars, callerVars, readerVars,
                 sweepVars>>

CompleteStatus(w) == WriteStatus(w, "complete_status", COMPLETED, "complete_result")
FailStatus(w) == WriteStatus(w, "fail_status", FAILED, "fail_error")

\* line 156: result = result
CompleteResult(w) ==
  /\ wpc[w] = "complete_result"
  /\ lock = w
  /\ SetField(wjob[w], "result", Result)
  /\ wpc' = [wpc EXCEPT ![w] = "complete_progress"]
  /\ UNCHANGED <<attrVars, timeVars, jobs, nextId, queue, lock, initVars, callerVars, wjob,
                 wtext, werr, readerVars, sweepVars>>

\* mutant: the except clause does not record the message
FailErrorForgotten(w) ==
  /\ wpc[w] = "fail_error"
  /\ lock = w
  /\ wpc' = [wpc EXCEPT ![w] = "fail_progress"]
  /\ UNCHANGED <<attrVars, timeVars, tableVars, queue, lock, initVars, callerVars, wjob,
                 wtext, werr, readerVars, sweepVars>>

\* line 168: error = str(e)
FailError(w) ==
  /\ wpc[w] = "fail_error"
  /\ lock = w
  /\ SetField(wjob[w], "error", werr[w])
  /\ wpc' = [wpc EXCEPT ![w] = "fail_progress"]
  /\ UNCHANGED <<attrVars, timeVars, jobs, nextId, queue, lock, initVars, callerVars, wjob,
                 wtext, werr, readerVars, sweepVars>>

\* last line of a final block (157, 169): write the progress text, release
\* the lock; the worker is free for the next queued call
WriteFinalProgress(w, at, text) ==
  /\ wpc[w] = at
  /\ lock = w
  /\ SetField(wjob[w], "progress", text)
  /\ lock' = 0
  /\ Return(w)
  /\ UNCHANGED <<attrVars, timeVars, jobs, nextId, queue, initVars, callerVars, readerVars,
                 sweepVars>>

\* mutant: a job that failed takes its worker thread down with it
FailProgressDies(w) ==
  /\ wpc[w] = "fail_progress"
  /\ lock = w
  /\ SetField(wjob[w], "progress", PFailed(werr[w]))
  /\ lock' = 0
  /\ wpc' = [wpc EXCEPT ![w] = "dead"]
  /\ UNCHANGED <<attrVars, timeVars, jobs, nextId, queue, initVars, callerVars, wjob, wtext,
                 werr, readerVars, sweepVars>>

CompleteProgress(w) == WriteFinalProgress(w, "complete_progress", PCompleted)
FailProgress(w) == WriteFinalProgress(w, "fail_progress", PFailed(werr[w]))

_process_job(w) ==
  \/ MarkProcessing(w) \/ MarkProgress(w)
  \/ InitCheck(w) \/ (\E o \in InitOutcomes : Construct(w, o))
  \/ SetTranscribing(w) \/ (\E r \in TranscribeOutcomes : Transcribe(w, r))
  \/ SetSummarizing(w) \/ (\E r \in {"none", "text"} : Summarize(w, r))
  \/ SetAnalyzing(w) \/ (\E r \in JudgeOutcomes : Judge(w, r))
  \/ PrepareResult(w)
  \/ CompleteStatus(w) \/ CompleteResult(w) \/ CompleteProgress(w)
  \/ FailStatus(w) \/ FailError(w) \/ FailProgress(w)

Worker(w) == TakeJob(w) \/ _process_job(w)

\* ------------------------------------------------------ cleanup_old_jobs
\* datetime.hour of a time
HourOf(t) == (t \div TicksPerHour) % HoursPerDay

\* datetime.replace(hour=h): same day, same minutes, the hour field set to h
ReplaceHour(t, h) == (t \div TicksPerDay) * TicksPerDay + h * TicksPerHour + (t % TicksPerHour)

\* line 173: the hour field handed to replace();
\* replace() raises ValueError unless it is in 0..23
CutoffHour(now, max_age_hours) == HourOf(now) - max_age_hours
ValidHour(h) == h \in 0..(HoursPerDay - 1)

\* mutant: the sweep does not look at the status
ExpiredAnyStatus(cutoff_time) ==
  {j \in jobs : objs[j].created_at < cutoff_time}

\* line 178: the jobs a sweep with this cutoff removes
Expired(cutoff_time) ==
  {j \in jobs : objs[j].status \in {COMPLETED, FAILED} /\ objs[j].created_at < cutoff_time}

\* cleanup_old_jobs is entered; line 173 first evaluates the receiver
\* datetime.now() of replace()
EnterCleanup(s, max_age_hours) ==
  /\ spc' = [spc EXCEPT ![s] = "cutoff"]
  /\ sage' = [sage EXCEPT ![s] = max_age_hours]
  /\ snow1' = [snow1 EXCEPT ![s] = clock]
  /\ UNCHANGED scut

\* cleanup_old_jobs is left, by return or by the ValueError of line 173
LeaveCleanup(s, to) ==
  /\ spc' = [spc EXCEPT ![s] = to]
  /\ sage' = [sage EXCEPT ![s] = 0]
  /\ snow1' = [snow1 EXCEPT ![s] = 0]
  /\ scut' = [scut EXCEPT ![s] = 0]

\* where control goes when cleanup_old_jobs returns / raises: the caller of
\* the API carries on; the loop of cleanup_worker (lines 192-194) sleeps again,
\* and an exception ends its thread
AfterReturn(s) == IF s = "bg" THEN "sleep" ELSE "idle"
AfterRaise(s) == IF s = "bg" THEN "dead" ELSE "idle"

\* a direct call cleanup_old_jobs(max_age_hours)
CallCleanup(a) ==
  /\ spc["api"] = "idle"
  /\ EnterCleanup("api", a)
  /\ UNCHANGED <<attrVars, timeVars, tableVars, queue, lock, initVars, callerVars, workerVars,
                 readerVars, swake>>

\* start_cleanup_task, lines 189-197: the daemon thread starts and goes to
\* sleep
StartCleanupTask ==
  /\ spc["bg"] = "off"
  /\ spc' = [spc EXCEPT !["bg"] = "sleep"]
  /\ swake' = clock
  /\ UNCHANGED <<attrVars, timeVars, tableVars, queue, lock, initVars, callerVars, workerVars,
                 readerVars, sage, snow1, scut>>

\* cleanup_worker, lines 192-194: after an hour of sleep, cleanup_old_jobs()
WakeCleanup ==
  /\ spc["bg"] = "sleep"
  /\ clock >= swake + SleepHours * TicksPerHour
  /\ EnterCleanup("bg", DefaultMaxAge)
  /\ UNCHANGED <<attrVars, timeVars, tableVars, queue, lock, initVars, callerVars, workerVars,
                 readerVars, swake>>

\* line 173, the argument of replace(): a second datetime.now(), its hour
\* minus max_age_hours; then replace() itself
ComputeCutoff(s) ==
  /\ spc[s] = "cutoff"
  /\ IF ValidHour(CutoffHour(clock, sage[s]))
       THEN /\ scut' = [scut EXCEPT ![s] = ReplaceHour(snow1[s], CutoffHour(clock, sage[s]))]
            /\ spc' = [spc EXCEPT ![s] = "sweep"]
            /\ UNCHANGED <<sage, snow1>>
       ELSE LeaveCleanup(s, AfterRaise(s))
  /\ UNCHANGED <<attrVars, timeVars, tableVars, queue, lock, initVars, callerVars, workerVars,
                 readerVars, swake>>

\* mutant: the sweep deletes every job created before the cutoff
SweepAnyStatus(s) ==
  /\ spc[s] = "sweep"
  /\ lock = 0
  /\ jobs' = jobs \ ExpiredAnyStatus(scut[s])
  /\ LeaveCleanup(s, AfterReturn(s))
  /\ swake' = IF s = "bg" THEN clock ELSE swake
  /\ UNCHANGED <<attrVars, timeVars, heapVars, nextId, queue, lock, initVars, callerVars,
                 workerVars, readerVars>>

\* lines 175-183: under the lock, collect and delete the expired jobs
Sweep(s) ==
  /\ spc[s] = "sweep"
  /\ lock = 0
  /\ jobs' = jobs \ Expired(scut[s])
  /\ LeaveCleanup(s, AfterReturn(s))
  /\ swake' = IF s = "bg" THEN clock ELSE swake
  /\ UNCHANGED <<attrVars, timeVars, heapVars, nextId, queue, lock, initVars, callerVars,
                 workerVars, readerVars>>

cleanup_old_jobs(s) == ComputeCutoff(s) \/ Sweep(s)

\* ------------------------------------------- get_job_status, GET /job/{id}
\* job_queue.py 89: self.jobs.get(job_id), a reference to the Job or None
JobsGet(job_id) == IF job_id \in jobs THEN job_id ELSE NoJob

\* job_queue.py 86-89: get_job_status under the lock;
\* server.py 114-117: None is answered with 404
Lookup(id) ==
  /\ rpc = "idle"
  /\ lock = 0
  /\ rjob' = JobsGet(id)
  /\ rpc' = IF JobsGet(id) = NoJob THEN "not_found" ELSE "read_status"
  /\ obs' = NoObs
  /\ UNCHANGED <<attrVars, timeVars, tableVars, queue, lock, initVars, callerVars, workerVars,
                 sweepVars>>

\* server.py 121-126: the handler reads the fields of the Job it was handed,
\* one after the other, without the lock
ReadField(at, f, to) ==
  /\ rpc = at
  /\ obs' = [obs EXCEPT ![f] = objs[rjob][f]]
  /\ rpc' = to
  /\ UNCHANGED <<attrVars, timeVars, tableVars, queue, lock, initVars, callerVars, workerVars,
                 rjob, sweepVars>>

ReadStatus == ReadField("read_status", "status", "read_progress")
ReadProgress == ReadField("read_progress", "progress", "read_result")
ReadResult == ReadField("read_result", "result", "read_error")
ReadError == ReadField("read_error", "error", "respond")

\* server.py 117, 129: the response leaves the handler
Respond ==
  /\ rpc \in {"respond", "not_found"}
  /\ rpc' = "idle"
  /\ rjob' = NoJob
  /\ obs' = NoObs
  /\ UNCHANGED <<attrVars, timeVars, tableVars, queue, lock, initVars, callerVars, workerVars,
                 sweepVars>>

get_job_status ==
  \/ \E id \in Ids : Lookup(id)
  \/ ReadStatus \/ ReadProgress \/ ReadResult \/ ReadError \/ Respond

\* ------------------------------------------------ speaker attribution
\* (src/modules/transcriber.py)  Times are ticks, TicksPerSecond to a second.

\* a diarization label is 'SPEAKER_' + rest or, if it does not start with
\* 'SPEAKER_', rest alone; rest is a string of characters: the digits are
\* 0..9, Letter stands for a letter, Underscore for '_'
Letter == 10
Underscore == 11
Label(speaker, rest) == [speaker |-> speaker, rest |-> rest]
SPEAKER_00 == Label(TRUE, <<0, 0>>)
SPEAKER_01 == Label(TRUE, <<0, 1>>)
SPEAKER_A == Label(TRUE, <<Letter>>)
GuestA == Label(FALSE, <<Letter>>)
\* the labels the diarization pipeline may hand out
Labels == {SPEAKER_00, SPEAKER_01, SPEAKER_A, GuestA}
\* the empty string, where no label applies
NoLabel == Label(FALSE, << >>)

\* a speaker turn of the diarization: [start, end] and a label
Turn(window, label) == [start |-> window[1], end |-> window[2], label |-> label]
\* a segment of the transcription result: [start, end] and its text
Segment(window, text) == [start |-> window[1], end |-> window[2], text |-> text]

\* the segments that the turns of the explored diarizations cover
TurnWindows == {<<0, 2>>, <<1, 5>>, <<2, 4>>, <<5, 6>>}
\* the windows of the explored transcript segments
SegWindows == {<<0, 4>>, <<4, 8>>, <<12, 16>>}
\* the texts of the explored transcript segments
Texts == {"Hi there", "Hello, how are you?", "Good, thanks", "It is raining"}

\* order of the segments in a pyannote timeline: by start, then by end
Before(a, b) == a[1] < b[1] \/ (a[1] = b[1] /\ a[2] < b[2])

\* sequences of at most n windows of W, in timeline order
Timelines(W, n) ==
  {ws \in UNION {[1..k -> W] : k \in 0..n} :
     \A i, j \in DOMAIN ws : i < j => Before(ws[i], ws[j])}

\* The diarization pipeline is missing or raised (NoDiarization), or it
\* returned an Annotation: its tracks in itertracks order, each over a segment
\* of its own
Annotation(turns) == [avail |-> TRUE, turns |-> turns]
Diarizations ==
  {NoDiarization} \cup
  {Annotation([i \in DOMAIN ws |-> Turn(ws[i], ls[i])]) :
     ws \in Timelines(TurnWindows, MaxTurns), ls \in [1..MaxTurns -> Labels]}

\* result.get('segments', []) of the transcription, in time order
SegmentLists ==
  {[i \in DOMAIN ws |-> Segment(ws[i], ts[i])] :
     ws \in Timelines(SegWindows, MaxSegments), ts \in [1..MaxSegments -> Texts]}

\* the windows of the segments whose conversation flow is explored: pauses of
\* 0, 1.5 and 2 seconds between neighbours
FlowWindows == {<<0, 4>>, <<4, 8>>, <<11, 12>>, <<12, 16>>, <<19, 20>>}
FlowSegmentLists ==
  {[i \in DOMAIN ws |-> Segment(ws[i], ts[i])] :
     ws \in Timelines(FlowWindows, MaxSegments), ts \in [1..MaxSegments -> Texts]}

\* segment lists of every length up to MaxRatioSegments with f address
\* words, q question marks and neither in the other texts
RatioSegments(n, f, q) ==
  [i \in 1..n |->
     Segment(<<2 * (i - 1), 2 * i>>,
             IF i <= f THEN "Hi there"
             ELSE IF i <= f + q THEN "Hello, how are you?"
             ELSE "It is raining")]
RatioSegmentLists ==
  UNION {{RatioSegments(n, f, q) : f \in 0..n, q \in 0..n} : n \in 0..MaxRatioSegments}

\* the diarizations and windows _get_dominant_speaker is called with on its
\* own: overlaps of 0 to 3 ticks, equal totals made of one and of two turns
DominantTurnWindows == {<<0, 1>>, <<0, 2>>, <<1, 5>>, <<2, 4>>}
DominantDiarizations ==
  {Annotation([i \in DOMAIN ws |-> Turn(ws[i], ls[i])]) :
     ws \in Timelines(DominantTurnWindows, MaxTurns), ls \in [1..MaxTurns -> Labels]}
DominantWindows == {<<0, 4>>, <<1, 3>>, <<5, 8>>}

\* max and min of two numbers
Max2(a, b) == IF a >= b THEN a ELSE b
Min2(a, b) == IF a <= b THEN a ELSE b

\* diarization.labels()
LabelsOf(turns) == {turns[i].label : i \in DOMAIN turns}

\* lines 136-144: speaker_durations after the loop over itertracks
RECURSIVE SpeakerDurations(_)
SpeakerDurations(turns) ==
  IF turns = << >> THEN [l \in {} |-> 0]
  ELSE LET n == Len(turns)
           before == SpeakerDurations(SubSeq(turns, 1, n - 1))
           speaker == turns[n].label
           duration == turns[n].end - turns[n].start
       IN IF speaker \notin DOMAIN before
            THEN before @@ (speaker :> duration)
            ELSE [before EXCEPT ![speaker] = @ + duration]

\* mutant: a speaker needs more than min_speaker_duration of speech
ValidSpeakersStrict(turns) ==
  {speaker \in DOMAIN SpeakerDurations(turns) :
     SpeakerDurations(turns)[speaker] > MinSpeakerDuration * TicksPerSecond}

\* lines 147-149: the speakers with at least min_speaker_duration of speech
ValidSpeakers(turns) ==
  {speaker \in DOMAIN SpeakerDurations(turns) :
     SpeakerDurations(turns)[speaker] >= MinSpeakerDuration * TicksPerSecond}

\* mutant: only the tracks of the speaker who spoke least are dropped
FilteredAnnotationDropShortest(turns) ==
  LET durations == SpeakerDurations(turns)
      least == {l \in LabelsOf(turns) :
                  \A m \in LabelsOf(turns) : durations[l] <= durations[m]}
  IN SelectSeq(turns, LAMBDA t : t.label \notin least)

\* lines 170-176: a new Annotation with the tracks of the valid speakers
FilteredAnnotation(turns) ==
  SelectSeq(turns, LAMBDA t : t.label \in ValidSpeakers(turns))

\* DiarizationService.diarize, lines 93-186
DiarizeResult(d) ==
  IF ~ d.avail THEN NoDiarization
  ELSE IF d.turns # << >>
          /\ Cardinality(ValidSpeakers(d.turns)) > 0
          /\ Cardinality(ValidSpeakers(d.turns)) # Cardinality(LabelsOf(d.turns))
         THEN Annotation(FilteredAnnotation(d.turns))
         ELSE d

\* ---- text tests
\* '?' in text
HasQuestionMark(text) == text \in {"Hello, how are you?"}
\* text.strip().endswith('?')
EndsWithQuestionMark(text) == text \in {"Hello, how are you?"}
\* any(word in text.lower() for word in address_words), line 635: 'hi' is in
\* "hi there", 'thanks' in "good, thanks"
HasAddressWord(text) == text \in {"Hi there", "Good, thanks"}

\* mutant: the two ratios are compared with >=
ShouldUseRuleBasedInclusive(segs) ==
  IF Len(segs) < 3 THEN FALSE
  ELSE LET conversation_indicators ==
             Cardinality({i \in DOMAIN segs : HasAddressWord(segs[i].text)})
           question_count ==
             Cardinality({i \in DOMAIN segs : HasQuestionMark(segs[i].text)})
       IN \/ 5 * conversation_indicators >= Len(segs)
          \/ 20 * question_count >= 3 * Len(segs)

\* _should_use_rule_based_assignment, lines 626-653:
\* conversation_ratio > 0.2 or question_ratio > 0.15, as fractions 1/5 and 3/20
ShouldUseRuleBased(segs) ==
  IF Len(segs) < 3 THEN FALSE
  ELSE LET conversation_indicators ==
             Cardinality({i \in DOMAIN segs : HasAddressWord(segs[i].text)})
           question_count ==
             Cardinality({i \in DOMAIN segs : HasQuestionMark(segs[i].text)})
       IN \/ 5 * conversation_indicators > Len(segs)
          \/ 20 * question_count > 3 * Len(segs)

\* ---- display labels
\* a speaker as a line of the transcript names it
Display(kind, n, label) == [kind |-> kind, n |-> n, label |-> label]
\* f"Speaker {n}"
SpeakerNumber(n) == Display("number", n, NoLabel)
\* f"Speaker {label}"
SpeakerVerbatim(label) == Display("verbatim", 0, label)
\* "Unknown Speaker"
UnknownSpeaker == Display("unknown", 0, NoLabel)
\* int() raised ValueError
ValueError == Display("ValueError", 0, NoLabel)

\* 'SPEAKER_<rest>'.split('_')[1]: rest up to its first '_'
RECURSIVE FirstField(_)
FirstField(chars) ==
  IF chars = << >> \/ Head(chars) = Underscore THEN << >>
  ELSE <<Head(chars)>> \o FirstField(Tail(chars))

\* int(chars) for a string of decimal digits; raises ValueError for the empty
\* string and for a string with a letter
IsDecimal(chars) == chars # << >> /\ \A i \in DOMAIN chars : chars[i] \in 0..9
RECURSIVE IntOf(_)
IntOf(chars) ==
  IF chars = << >> THEN 0
  ELSE 10 * IntOf(SubSeq(chars, 1, Len(chars) - 1)) + chars[Len(chars)]

\* lines 593-597: 'SPEAKER_XX' becomes 'Speaker X+1', any other label is kept
DisplayLabel(label) ==
  IF label.speaker
    THEN IF IsDecimal(FirstField(label.rest))
           THEN SpeakerNumber(IntOf(FirstField(label.rest)) + 1)
           ELSE ValueError
    ELSE SpeakerVerbatim(label)

\* ---- _get_dominant_speaker
\* lines 576-587: speaker_durations after the loop, as the dict holds it: the
\* labels in the order in which they were inserted, each with its total
RECURSIVE Overlaps(_, _, _)
Overlaps(turns, start_time, end_time) ==
  IF turns = << >> THEN << >>
  ELSE LET n == Len(turns)
           before == Overlaps(SubSeq(turns, 1, n - 1), start_time, end_time)
           overlap_start == Max2(start_time, turns[n].start)
           overlap_end == Min2(end_time, turns[n].end)
           at == {i \in DOMAIN before : before[i].label = turns[n].label}
       IN IF overlap_start < overlap_end
            THEN IF at = {}
                   THEN Append(before, [label |-> turns[n].label,
                                        total |-> overlap_end - overlap_start])
                   ELSE [i \in DOMAIN before |->
                           IF i \in at
                             THEN [before[i] EXCEPT !.total = @ + (overlap_end - overlap_start)]
                             ELSE before[i]]
            ELSE before

\* mutant: of the keys with the greatest value, the last one of the dict
LastMax(durations) ==
  LET i == CHOOSE i \in DOMAIN durations :
             /\ \A j \in DOMAIN durations : durations[j].total <= durations[i].total
             /\ \A j \in (i + 1)..Len(durations) : durations[j].total < durations[i].total
  IN durations[i].label

\* line 591: max(speaker_durations, key=speaker_durations.get), the first key
\* of the dict that has the greatest value
FirstMax(durations) ==
  LET i == CHOOSE i \in DOMAIN durations :
             /\ \A j \in DOMAIN durations : durations[j].total <= durations[i].total
             /\ \A j \in 1..(i - 1) : durations[j].total < durations[i].total
  IN durations[i].label

\* mutant: the speaker of the longest single overlap, not of the greatest total
LongestOverlapSpeaker(turns, start_time, end_time) ==
  LET Overlap(i) == Min2(end_time, turns[i].end) - Max2(start_time, turns[i].start)
      over == {i \in DOMAIN turns : Overlap(i) > 0}
  IN IF over # {}
       THEN DisplayLabel(turns[CHOOSE i \in over : \A j \in over : Overlap(j) <= Overlap(i)].label)
       ELSE UnknownSpeaker

\* lines 563-599
GetDominantSpeaker(turns, start_time, end_time) ==
  IF Overlaps(turns, start_time, end_time) # << >>
    THEN DisplayLabel(FirstMax(Overlaps(turns, start_time, end_time)))
    ELSE UnknownSpeaker

\* ---- _get_dominant_speaker, track by track, in the threads of the pool
\* lines 579-587: one pass of the loop body on the dict
AddOverlap(durations, turn, start_time, end_time) ==
  LET overlap_start == Max2(start_time, turn.start)
      overlap_end == Min2(end_time, turn.end)
      at == {i \in DOMAIN durations : durations[i].label = turn.label}
  IN IF overlap_start < overlap_end
       THEN IF at = {}
              THEN Append(durations, [label |-> turn.label,
                                      total |-> overlap_end - overlap_start])
              ELSE [i \in DOMAIN durations |->
                      IF i \in at
                        THEN [durations[i] EXCEPT !.total = @ + (overlap_end - overlap_start)]
                        ELSE durations[i]]
       ELSE durations

\* mutant: speaker_durations is one dict of the transcriber, used by every call
SharedDict(w) == 1

\* line 576: speaker_durations is a local of the call, so the dict a thread
\* works on is its own
DictOf(w) == w

\* lines 575-576: the call starts with an empty dict
BeginDominant(w, window) ==
  /\ dcall[w].pc \in {"idle", "done"}
  /\ dcall' = [v \in DOMAIN dcall |->
                 LET mine == IF v = w
                               THEN [NoCall EXCEPT !.pc = "loop",
                                                   !.start_time = window[1],
                                                   !.end_time = window[2],
                                                   !.track = 1,
                                                   !.speaker_durations = dcall[v].speaker_durations]
                               ELSE dcall[v]
                 IN IF v = DictOf(w) THEN [mine EXCEPT !.speaker_durations = << >>] ELSE mine]
  /\ UNCHANGED <<apc, diarization, segments, dfiltered, use_rule_based, formatted_transcription>>
  /\ UNCHANGED <<timeVars, tableVars, queue, lock, initVars, callerVars, workerVars,
                 readerVars, sweepVars>>

\* lines 579-587: the next track of itertracks
NextTrack(w) ==
  /\ dcall[w].pc = "loop"
  /\ dcall[w].track <= Len(diarization.turns)
  /\ dcall' = [v \in DOMAIN dcall |->
                 LET mine == IF v = w THEN [dcall[v] EXCEPT !.track = @ + 1] ELSE dcall[v]
                 IN IF v = DictOf(w)
                      THEN [mine EXCEPT !.speaker_durations =
                              AddOverlap(dcall[v].speaker_durations,
                                         diarization.turns[dcall[w].track],
                                         dcall[w].start_time, dcall[w].end_time)]
                      ELSE mine]
  /\ UNCHANGED <<apc, diarization, segments, dfiltered, use_rule_based, formatted_transcription>>
  /\ UNCHANGED <<timeVars, tableVars, queue, lock, initVars, callerVars, workerVars,
                 readerVars, sweepVars>>

\* lines 589-599: the speaker of the greatest total, or 'Unknown Speaker'
ReturnDominant(w) ==
  /\ dcall[w].pc = "loop"
  /\ dcall[w].track > Len(diarization.turns)
  /\ dcall' = [dcall EXCEPT ![w].pc = "done",
                            ![w].speaker =
                               IF dcall[DictOf(w)].speaker_durations # << >>
                                 THEN DisplayLabel(FirstMax(dcall[DictOf(w)].speaker_durations))
                                 ELSE UnknownSpeaker]
  /\ UNCHANGED <<apc, diarization, segments, dfiltered, use_rule_based, formatted_transcription>>
  /\ UNCHANGED <<timeVars, tableVars, queue, lock, initVars, callerVars, workerVars,
                 readerVars, sweepVars>>

\* ---- the two assignments
\* mutant: a change of speaker moves on to the next speaker number
RECURSIVE AnalyzeConversationFlowCounting(_)
AnalyzeConversationFlowCounting(segs) ==
  IF segs = << >> THEN << >>
  ELSE IF Len(segs) = 1 THEN <<1>>
  ELSE LET n == Len(segs)
           assignments == AnalyzeConversationFlowCounting(SubSeq(segs, 1, n - 1))
           current_speaker == assignments[n - 1]
           pause_duration == segs[n].start - segs[n - 1].end
           should_change ==
             \/ 2 * pause_duration > 3 * TicksPerSecond
             \/ /\ EndsWithQuestionMark(segs[n - 1].text)
                /\ ~ EndsWithQuestionMark(segs[n].text)
       IN Append(assignments,
                 IF should_change THEN current_speaker + 1 ELSE current_speaker)

\* mutant: each of the two indicators changes the speaker by itself
RECURSIVE AnalyzeConversationFlowTwice(_)
AnalyzeConversationFlowTwice(segs) ==
  IF segs = << >> THEN << >>
  ELSE IF Len(segs) = 1 THEN <<1>>
  ELSE LET n == Len(segs)
           assignments == AnalyzeConversationFlowTwice(SubSeq(segs, 1, n - 1))
           current_speaker == assignments[n - 1]
           pause_duration == segs[n].start - segs[n - 1].end
           after_pause ==
             IF 2 * pause_duration > 3 * TicksPerSecond
               THEN (IF current_speaker = 1 THEN 2 ELSE 1)
               ELSE current_speaker
       IN Append(assignments,
                 IF /\ EndsWithQuestionMark(segs[n - 1].text)
                    /\ ~ EndsWithQuestionMark(segs[n].text)
                   THEN (IF after_pause = 1 THEN 2 ELSE 1)
                   ELSE after_pause)

\* _analyze_conversation_flow, lines 519-559: the speaker numbers of the
\* segments; a pause of more than 1.5 seconds (3/2) or an answer to a question
\* changes the speaker
RECURSIVE AnalyzeConversationFlow(_)
AnalyzeConversationFlow(segs) ==
  IF segs = << >> THEN << >>
  ELSE IF Len(segs) = 1 THEN <<1>>
  ELSE LET n == Len(segs)
           assignments == AnalyzeConversationFlow(SubSeq(segs, 1, n - 1))
           current_speaker == assignments[n - 1]
           pause_duration == segs[n].start - segs[n - 1].end
           should_change ==
             \/ 2 * pause_duration > 3 * TicksPerSecond
             \/ /\ EndsWithQuestionMark(segs[n - 1].text)
                /\ ~ EndsWithQuestionMark(segs[n].text)
       IN Append(assignments,
                 IF should_change
                   THEN (IF current_speaker = 1 THEN 2 ELSE 1)
                   ELSE current_speaker)

\* what transcribe_audio has to return: nothing yet (NoTranscription), the
\* labelled lines ('' when there are none), or an exception on its way to
\* line 458
Formatted(lines) == [status |-> "ok", lines |-> lines]
Raised == [status |-> "raise", lines |-> << >>]

\* _format_transcription_with_speakers, lines 462-486: the dominant speaker of
\* every segment; the ValueError of line 595 leaves the loop
FormatTranscriptionWithSpeakers(segs, turns) ==
  LET speakers == [i \in DOMAIN segs |-> GetDominantSpeaker(turns, segs[i].start, segs[i].end)]
  IN IF \E i \in DOMAIN segs : speakers[i] = ValueError
       THEN Raised
       ELSE Formatted(speakers)

\* _format_with_rule_based_speakers, lines 488-517
FormatWithRuleBasedSpeakers(segs) ==
  IF segs = << >> THEN Formatted(<< >>)
  ELSE Formatted([i \in DOMAIN segs |-> SpeakerNumber(AnalyzeConversationFlow(segs)[i])])

\* ---- transcribe_audio, the speaker attribution
\* line 376: diarization_service.diarize(...)
Diarize ==
  /\ apc = "diarize"
  /\ dfiltered' = DiarizeResult(diarization)
  /\ apc' = "decide"
  /\ UNCHANGED <<diarization, segments, use_rule_based, formatted_transcription, dcall>>
  /\ UNCHANGED <<timeVars, tableVars, queue, lock, initVars, callerVars, workerVars,
                 readerVars, sweepVars>>

\* mutant: one label is enough for the diarization to be used
UseRuleBasedUnlessLabelled(d, segs) ==
  IF d.avail /\ Cardinality(LabelsOf(d.turns)) >= 1
    THEN FALSE
    ELSE IF ShouldUseRuleBased(segs) THEN TRUE ELSE ~ d.avail

\* lines 426-445: use_rule_based when the branch of lines 447-448 is reached
UseRuleBased(d, segs) ==
  IF d.avail /\ Cardinality(LabelsOf(d.turns)) > 1
    THEN FALSE
    ELSE IF ShouldUseRuleBased(segs) THEN TRUE ELSE ~ d.avail

\* lines 425-445: choose the assignment
Decide ==
  /\ apc = "decide"
  /\ use_rule_based' = UseRuleBased(dfiltered, segments)
  /\ apc' = "format"
  /\ UNCHANGED <<diarization, segments, dfiltered, formatted_transcription, dcall>>
  /\ UNCHANGED <<timeVars, tableVars, queue, lock, initVars, callerVars, workerVars,
                 readerVars, sweepVars>>

\* lines 431, 441, 448: label the transcript
Format ==
  /\ apc = "format"
  /\ formatted_transcription' =
       IF use_rule_based
         THEN FormatWithRuleBasedSpeakers(segments)
         ELSE FormatTranscriptionWithSpeakers(segments, dfiltered.turns)
  /\ apc' = "done"
  /\ UNCHANGED <<diarization, segments, dfiltered, use_rule_based, dcall>>
  /\ UNCHANGED <<timeVars, tableVars, queue, lock, initVars, callerVars, workerVars,
                 readerVars, sweepVars>>

\* line 448 on its own: _format_with_rule_based_speakers(result)
FormatByRules ==
  /\ apc = "rules"
  /\ formatted_transcription' = FormatWithRuleBasedSpeakers(segments)
  /\ apc' = "done"
  /\ UNCHANGED <<diarization, segments, dfiltered, use_rule_based, dcall>>
  /\ UNCHANGED <<timeVars, tableVars, queue, lock, initVars, callerVars, workerVars,
                 readerVars, sweepVars>>


\* ---------------------------------------------------------- the program
\* The job queue: callers submit, the pool processes, sweeps are requested.
Next ==
  \/ Tick
  \/ \E c \in Callers : submit_job(c)
  \/ \E w \in Workers : Worker(w)
  \/ \E a \in MaxAges : CallCleanup(a)
  \/ cleanup_old_jobs("api")

Spec == Init /\ [][Next]_vars

\* The pool alone, scheduled fairly: a caller that stored a job goes on to
\* dispatch it, and a worker thread that can take a step takes it.
PoolNext ==
  \/ Tick
  \/ \E c \in Callers : submit_job(c)
  \/ \E w \in Workers : Worker(w)

Fairness ==
  /\ \A c \in Callers : WF_vars(DispatchJob(c))
  /\ \A w \in Workers : WF_vars(Worker(w))

FairSpec == Init /\ [][PoolNext]_vars /\ Fairness

\* The GET /job handler next to the pool.
ReadNext ==
  \/ Tick
  \/ \E c \in Callers : submit_job(c) /\ nextId' <= ReadJobs + 1
  \/ \E w \in Workers : Worker(w)
  \/ get_job_status

ReadSpec == Init /\ [][ReadNext]_vars

\* A job that finished at some earlier time, as the table holds it afterwards
Finished(status, created_at) ==
  [status |-> status, created_at |-> created_at,
   result |-> IF status = COMPLETED THEN Result ELSE None,
   error |-> IF status = FAILED THEN ETranscription ELSE None,
   progress |-> IF status = COMPLETED THEN PCompleted ELSE PFailed(ETranscription)]

\* how long ago that job was created: within the hour, more than an hour ago,
\* more than a day ago
JobAges == {1, TicksPerHour + 1, DefaultMaxAge * TicksPerHour + 1}

\* A JobQueue that has been up for a while: one job has finished and the pool
\* is idle again; it is any time of the last hours of day 1
InitCleanup ==
  /\ clock \in (StartClock - CleanupWindow)..StartClock
  /\ \E status \in Terminal, age \in JobAges :
       /\ objs = (1 :> Finished(status, clock - age))
       /\ held = (1 :> {View(Finished(status, clock - age))})
  /\ jobs = {1}
  /\ nextId = 2
  /\ initialized = TRUE
  /\ built = 1
  /\ initFailed = FALSE
  /\ Idle
  /\ AttrOff

\* The sweeps alone: direct calls of cleanup_old_jobs and the cleanup_worker
\* thread
CleanupNext ==
  \/ Tick
  \/ \E a \in MaxAges : CallCleanup(a)
  \/ StartCleanupTask
  \/ WakeCleanup
  \/ \E s \in Sweepers : cleanup_old_jobs(s)

CleanupSpec == InitCleanup /\ [][CleanupNext]_vars

\* One transcribe_audio call on a fresh JobQueue's transcriber: the pipeline
\* and the transcription have returned, with any of the explored diarizations
\* and segment lists
InitAttribution ==
  /\ clock = StartClock
  /\ objs = << >>
  /\ held = << >>
  /\ jobs = {}
  /\ nextId = 1
  /\ initialized = FALSE
  /\ built = 0
  /\ initFailed = FALSE
  /\ Idle
  /\ apc = "diarize"
  /\ diarization \in Diarizations
  /\ segments \in SegmentLists
  /\ dfiltered = NoDiarization
  /\ use_rule_based = FALSE
  /\ formatted_transcription = NoTranscription
  /\ dcall = [w \in Workers |-> NoCall]

AttributionNext == Diarize \/ Decide \/ Format

AttributionSpec == InitAttribution /\ [][AttributionNext]_vars

\* One _format_with_rule_based_speakers call, with any of the explored segment
\* lists
InitFlow ==
  /\ clock = StartClock
  /\ objs = << >>
  /\ held = << >>
  /\ jobs = {}
  /\ nextId = 1
  /\ initialized = FALSE
  /\ built = 0
  /\ initFailed = FALSE
  /\ Idle
  /\ apc = "rules"
  /\ diarization = NoDiarization
  /\ segments \in FlowSegmentLists
  /\ dfiltered = NoDiarization
  /\ use_rule_based = TRUE
  /\ formatted_transcription = NoTranscription
  /\ dcall = [w \in Workers |-> NoCall]

FlowNext == FormatByRules

FlowSpec == InitFlow /\ [][FlowNext]_vars

\* The decision of transcribe_audio when diarize has returned one speaker:
\* lines 435-445 follow _should_use_rule_based_assignment
InitRatio ==
  /\ clock = StartClock
  /\ objs = << >>
  /\ held = << >>
  /\ jobs = {}
  /\ nextId = 1
  /\ initialized = FALSE
  /\ built = 0
  /\ initFailed = FALSE
  /\ Idle
  /\ apc = "decide"
  /\ diarization = Annotation(<<Turn(<<1, 5>>, SPEAKER_00)>>)
  /\ segments \in RatioSegmentLists
  /\ dfiltered = diarization
  /\ use_rule_based = FALSE
  /\ formatted_transcription = NoTranscription
  /\ dcall = [w \in Workers |-> NoCall]

RatioNext == Decide

RatioSpec == InitRatio /\ [][RatioNext]_vars

\* _get_dominant_speaker called by the threads of the pool, again and again,
\* on one of the explored diarizations and any of the windows
InitDominant ==
  /\ clock = StartClock
  /\ objs = << >>
  /\ held = << >>
  /\ jobs = {}
  /\ nextId = 1
  /\ initialized = FALSE
  /\ built = 0
  /\ initFailed = FALSE
  /\ Idle
  /\ apc = "format"
  /\ diarization \in DominantDiarizations
  /\ segments = << >>
  /\ dfiltered = diarization
  /\ use_rule_based = FALSE
  /\ formatted_transcription = NoTranscription
  /\ dcall = [w \in Workers |-> NoCall]

DominantNext ==
  \E w \in Workers :
    \/ \E window \in DominantWindows : BeginDominant(w, window)
    \/ NextTrack(w)
    \/ ReturnDominant(w)

DominantSpec == InitDominant /\ [][DominantNext]_vars

\* ================================================================ claims
\* one step of a job's status
StatusStep(old, new) ==
  \/ new = old
  \/ old = QUEUED /\ new = PROCESSING
  \/ old = PROCESSING /\ new \in Terminal

\* C1: in every step, the status of every job either stays or moves
\* QUEUED -> PROCESSING or PROCESSING -> COMPLETED/FAILED: a terminal job
\* never becomes QUEUED or PROCESSING or the other terminal status, a
\* PROCESSING job never becomes QUEUED; no Job object is ever forgotten or
\* created anew under an id in use.
C1_StatusMovesForward ==
  [][/\ DOMAIN objs \subseteq DOMAIN objs'
     /\ \A j \in DOMAIN objs : StatusStep(objs[j].status, objs'[j].status)]_vars

\* a COMPLETED and a FAILED job exist, and a sweep has removed a job
C1_Witness ==
  /\ \E j \in DOMAIN objs : objs[j].status = COMPLETED
  /\ \E j \in DOMAIN objs : objs[j].status = FAILED
  /\ DOMAIN objs # jobs

\* no worker is inside a "with self._lock" block that updates job j
Stable(j) == ~ \E w \in Workers : lock = w /\ wjob[w] = j

Processing == {j \in jobs : objs[j].status = PROCESSING}

\* C3: at most PoolSize jobs of the table are PROCESSING.
C3_PoolBound == Cardinality(Processing) <= PoolSize

\* the pool is full: PoolSize jobs are PROCESSING, one more waits in the queue
C3_Witness ==
  /\ Cardinality(Processing) = PoolSize
  /\ queue # << >>
  /\ objs[Head(queue)].status = QUEUED

\* C7: a step removes a job from the table only under the free lock (no worker
\* is inside a locked update) and only if the job is COMPLETED or FAILED.
C7_SweepOnlyTerminal ==
  [][\A j \in jobs \ jobs' : lock = 0 /\ objs[j].status \in Terminal]_vars

\* a sweep has removed a job while another job is PROCESSING and a third QUEUED
C7_Witness ==
  /\ DOMAIN objs # jobs
  /\ \E j \in jobs : objs[j].status = PROCESSING
  /\ \E j \in jobs : objs[j].status = QUEUED

\* C4: under fair scheduling, every job that submit_job has stored eventually
\* is COMPLETED or FAILED, whatever the collaborators return and however many
\* jobs fail before it.
C4_EveryJobFinishes ==
  \A j \in Ids : (j \in jobs) ~> (j \in DOMAIN objs /\ objs[j].status \in Terminal)

\* all MaxJobs jobs are terminal, and a job queued behind a FAILED one COMPLETED
C4_Witness ==
  /\ nextId > MaxJobs
  /\ \A j \in jobs : objs[j].status \in Terminal
  /\ \E j, k \in jobs : j < k /\ objs[j].status = FAILED /\ objs[k].status = COMPLETED

\* C5: the (status, progress, result, error) that the GET /job handler has
\* read when it responds is one the Job held at a single instant.
C5_SnapshotRead == rpc = "respond" => obs \in held[rjob]

\* cleanup_old_jobs, called by s, is left in this step (return or exception)
CleanupReturns(s) == spc[s] \in {"cutoff", "sweep"} /\ spc'[s] \notin {"cutoff", "sweep"}

\* C6: when cleanup_old_jobs(maxAge) is left, every COMPLETED or FAILED job
\* created earlier than maxAge hours before the time of the call is gone from
\* the table.
C6_SweepRemovesExpired ==
  [][\A s \in Sweepers :
       CleanupReturns(s) =>
         \A j \in jobs :
           (/\ objs[j].status \in Terminal
            /\ objs[j].created_at < snow1[s] - sage[s] * TicksPerHour) => j \notin jobs']_vars

\* C8: the cleanup_worker thread, once started, never ends.
C8_CleanupTaskKeepsRunning == spc["bg"] # "dead"

\* C9: when a cleanup_old_jobs(0) is left, every job that was COMPLETED before
\* the call is gone from the table, and get_job_status never again finds an id
\* that it has once not found.
C9_SweepZeroRemovesCompleted ==
  [][/\ \A s \in Sweepers :
          (CleanupReturns(s) /\ sage[s] = 0) =>
            \A j \in jobs : objs[j].status = COMPLETED => JobsGet(j)' = NoJob
     /\ \A j \in DOMAIN objs : JobsGet(j) = NoJob => JobsGet(j)' = NoJob]_vars

\* C10: as long as no constructor has raised, the components have been
\* constructed at most once.
C10_ConstructedOnce == ~ initFailed => built <= 1

C12_NoStageAfterFailure ==
  [][\A w \in Workers :
       /\ (wpc[w] = "summarize" /\ wpc'[w] # "summarize") => wtext[w] = "text"
       /\ werr[w] # None => wpc'[w] \notin {"transcribe", "summarize", "judge"}]_vars

\* C13: the error written on a failing job is the message the except clause
\* received, and a job whose transcription came back empty is recorded as a
\* transcription failure.
C13_ErrorNamesFailedStage ==
  [][\A w \in Workers :
       (wpc[w] = "fail_error" /\ wpc'[w] # "fail_error") =>
         /\ objs'[wjob[w]].error = werr[w]
         /\ wtext[w] = "empty" => objs'[wjob[w]].error = ETranscription]_vars

\* the job ids waiting on the pool's queue
Queued == {queue[i] : i \in DOMAIN queue}

\* C14: a caller that has stored its job and is about to return holds an id
\* nobody else holds, the table has the job under that id with status QUEUED,
\* get_job_status finds it, and the return is not held up by anything: the
\* hand-over to the pool can be taken at once, whatever the pool is doing.
C14_SubmitStoresAndReturns ==
  \A c \in Callers :
    cpc[c] = "stored" =>
      /\ JobsGet(cjob[c]) = cjob[c]
      /\ objs[cjob[c]].status = QUEUED
      /\ cjob[c] \notin Queued
      /\ \A w \in Workers : wjob[w] # cjob[c]
      /\ \A d \in Callers \ {c} : cjob[d] # cjob[c]
      /\ ENABLED DispatchJob(c)

\* a caller is about to return from submit_job while both workers are busy
\* and the lock is held by one of them
C14_Witness ==
  /\ \E c \in Callers : cpc[c] = "stored"
  /\ Cardinality(Processing) = PoolSize
  /\ lock # 0

RECURSIVE TotalOverlap(_, _, _, _)
TotalOverlap(turns, label, start_time, end_time) ==
  IF turns = << >> THEN 0
  ELSE (IF Head(turns).label = label
          THEN Max2(0, Min2(end_time, Head(turns).end) - Max2(start_time, Head(turns).start))
          ELSE 0)
       + TotalOverlap(Tail(turns), label, start_time, end_time)

\* the labels with the greatest total overlap with a window, if it is positive
Dominant(turns, start_time, end_time) ==
  {l \in LabelsOf(turns) :
     /\ TotalOverlap(turns, l, start_time, end_time) > 0
     /\ \A m \in LabelsOf(turns) :
          TotalOverlap(turns, m, start_time, end_time)
            <= TotalOverlap(turns, l, start_time, end_time)}

\* C16: for every segment labelled from the diarization, _get_dominant_speaker
\* gives the display form of a label whose accumulated overlap with the
\* segment's window is the greatest, and 'Unknown Speaker' when no turn
\* overlaps the window; the transcript carries that speaker on the segment's
\* line.
C16_DominantSpeaker ==
  (apc = "done" /\ ~ use_rule_based) =>
    \A i \in DOMAIN segments :
      LET speaker == GetDominantSpeaker(dfiltered.turns, segments[i].start, segments[i].end)
          best == Dominant(dfiltered.turns, segments[i].start, segments[i].end)
      IN /\ best = {} => speaker = UnknownSpeaker
         /\ best # {} => \E l \in best : speaker = DisplayLabel(l)
         /\ formatted_transcription.status = "ok" =>
              formatted_transcription.lines[i] = speaker

\* a transcript labelled from the diarization: on one segment two speakers
\* overlap and the dominant one is not the one of the longest turn, another
\* segment has no speaker
C16_Witness ==
  /\ apc = "done" /\ ~ use_rule_based
  /\ formatted_transcription.status = "ok"
  /\ \E i \in DOMAIN segments : formatted_transcription.lines[i] = UnknownSpeaker
  /\ \E i \in DOMAIN segments :
       /\ formatted_transcription.lines[i] = SpeakerNumber(1)
       /\ TotalOverlap(dfiltered.turns, SPEAKER_01, segments[i].start, segments[i].end) = 3
       /\ TotalOverlap(dfiltered.turns, SPEAKER_00, segments[i].start, segments[i].end) = 4

\* the total duration of the turns of a label
RECURSIVE TotalDuration(_, _)
TotalDuration(turns, label) ==
  IF turns = << >> THEN 0
  ELSE (IF Head(turns).label = label THEN Head(turns).end - Head(turns).start ELSE 0)
       + TotalDuration(Tail(turns), label)

\* the labels that total at least the minimum duration of 2.0 seconds
LongEnough(turns) ==
  {l \in LabelsOf(turns) : TotalDuration(turns, l) >= MinSpeakerDuration * TicksPerSecond}

C18_DiarizationWhenLabelled ==
  apc \in {"format", "done"} =>
    /\ (dfiltered.avail /\ Cardinality(LabelsOf(dfiltered.turns)) > 1) => ~ use_rule_based
    /\ (diarization.avail /\ Cardinality(LongEnough(diarization.turns)) = 1) =>
         (use_rule_based <=> ShouldUseRuleBased(segments))

\* one valid speaker is left of two and the conversation patterns made
\* transcribe_audio use the rules
C18_Witness ==
  /\ apc = "done"
  /\ Cardinality(LabelsOf(diarization.turns)) = 2
  /\ Cardinality(LongEnough(diarization.turns)) = 1
  /\ ShouldUseRuleBased(segments)
  /\ use_rule_based
  /\ formatted_transcription.status = "ok"

\* C19: when the pipeline gave nothing, or an Annotation in which no label
\* reaches the minimum duration (one without turns included), the transcript
\* is labelled by the rules.
C19_RulesWithoutValidSpeakers ==
  (apc \in {"format", "done"}
     /\ (~ diarization.avail \/ LongEnough(diarization.turns) = {})) => use_rule_based

\* the display form of a label as the specification gives it
DisplayForm(label) ==
  IF label.speaker /\ IsDecimal(label.rest)
    THEN SpeakerNumber(IntOf(label.rest) + 1)
    ELSE SpeakerVerbatim(label)

\* C20: the attribution ends with a labelled transcript, one line per
\* segment, never with an exception; a line labelled from the diarization
\* carries 'Unknown Speaker' or the display form of one of the labels:
\* 'Speaker <n+1>' for SPEAKER_<n>, 'Speaker <label>' for any other label.
C20_AttributionNeverRaises ==
  apc = "done" =>
    /\ formatted_transcription.status = "ok"
    /\ Len(formatted_transcription.lines) = Len(segments)
    /\ ~ use_rule_based =>
         \A i \in DOMAIN formatted_transcription.lines :
           formatted_transcription.lines[i] \in
             {UnknownSpeaker} \cup {DisplayForm(l) : l \in LabelsOf(dfiltered.turns)}

\* C21: when at most one label of the pipeline's Annotation reaches the
\* minimum duration, the transcript is labelled by the rules.
C21_RulesWhenFewValid ==
  (apc \in {"format", "done"}
     /\ diarization.avail
     /\ Cardinality(LongEnough(diarization.turns)) < 2) => use_rule_based

C23_TwoSpeakersAtMost ==
  (apc = "done" /\ use_rule_based) =>
     /\ formatted_transcription.status = "ok"
     /\ Len(formatted_transcription.lines) = Len(segments)
     /\ \A i \in DOMAIN segments :
          formatted_transcription.lines[i] \in {SpeakerNumber(1), SpeakerNumber(2)}

\* three segments with a change of speaker at both boundaries
C23_Witness ==
  /\ apc = "done"
  /\ use_rule_based
  /\ formatted_transcription.lines = <<SpeakerNumber(1), SpeakerNumber(2), SpeakerNumber(1)>>

\* the boundary before segment i changes the speaker: a pause of more than
\* 1.5 seconds, or an answer to a question
Flips(segs, i) ==
  \/ 2 * (segs[i].start - segs[i - 1].end) > 3 * TicksPerSecond
  \/ EndsWithQuestionMark(segs[i - 1].text) /\ ~ EndsWithQuestionMark(segs[i].text)

\* speaker 1 at the start, the other speaker after every boundary that flips
ActiveSpeaker(segs, i) ==
  IF Cardinality({k \in 2..i : Flips(segs, k)}) % 2 = 0 THEN 1 ELSE 2

\* the segments (0,2,'Hi there'), (2,4,'Hello, how are you?'), (6,8,'Good, thanks')
GreetingSegments ==
  <<Segment(<<0, 4>>, "Hi there"), Segment(<<4, 8>>, "Hello, how are you?"),
    Segment(<<12, 16>>, "Good, thanks")>>

\* C26: the first segment has speaker 1 and the speaker flips, once, exactly
\* at the boundaries with a pause of more than 1.5 seconds or with an answer
\* to a question; the greeting gets the numbers 1, 1, 2.
C26_FlipRule ==
  (apc = "done" /\ use_rule_based) =>
     /\ \A i \in DOMAIN segments :
          formatted_transcription.lines[i] = SpeakerNumber(ActiveSpeaker(segments, i))
     /\ segments = GreetingSegments =>
          formatted_transcription.lines = <<SpeakerNumber(1), SpeakerNumber(1), SpeakerNumber(2)>>

\* the greeting, labelled by the rules
C26_Witness ==
  /\ apc = "done"
  /\ use_rule_based
  /\ segments = GreetingSegments
  /\ formatted_transcription.lines = <<SpeakerNumber(1), SpeakerNumber(1), SpeakerNumber(2)>>

\* the segments with an address word, and those with a question mark
WithAddressWord(segs) == {i \in DOMAIN segs : HasAddressWord(segs[i].text)}
WithQuestionMark(segs) == {i \in DOMAIN segs : HasQuestionMark(segs[i].text)}

\* C28: with one speaker in the diarization, the rules are chosen exactly when
\* there are n >= 3 segments and f/n > 0.20 or q/n > 0.15; f/n = 0.20 with
\* q/n = 0.15 does not choose them.
C28_StrictRatios ==
  (apc = "format" /\ Cardinality(LabelsOf(dfiltered.turns)) = 1) =>
     LET n == Len(segments)
         f == Cardinality(WithAddressWord(segments))
         q == Cardinality(WithQuestionMark(segments))
     IN /\ use_rule_based = (n >= 3 /\ (100 * f > 20 * n \/ 100 * q > 15 * n))
        /\ (n >= 3 /\ 100 * f = 20 * n /\ 100 * q = 15 * n) => ~ use_rule_based

\* 20 segments, 4 with an address word and 3 with a question mark: not chosen
C28_Witness ==
  /\ apc = "format"
  /\ Len(segments) = 20
  /\ Cardinality(WithAddressWord(segments)) = 4
  /\ Cardinality(WithQuestionMark(segments)) = 3
  /\ ~ use_rule_based

\* C24: a call of _get_dominant_speaker returns what the diarization's turns
\* and the window determine, whatever was called before and whatever the
\* other thread is doing; two calls on the same window return the same label.
C24_DominantDeterministic ==
  \A w \in Workers :
    dcall[w].pc = "done" =>
      /\ dcall[w].speaker =
           GetDominantSpeaker(diarization.turns, dcall[w].start_time, dcall[w].end_time)
      /\ \A v \in Workers :
           (/\ dcall[v].pc = "done"
            /\ dcall[v].start_time = dcall[w].start_time
            /\ dcall[v].end_time = dcall[w].end_time) => dcall[v].speaker = dcall[w].speaker

\* one thread has returned a speaker while the other is in the loop on
\* another window, with a speaker in its dict that the first call did not see
C24_Witness ==
  \E v, w \in Workers :
    /\ dcall[w].pc = "done"
    /\ dcall[w].speaker \in {SpeakerNumber(1), SpeakerNumber(2)}
    /\ dcall[v].pc = "loop"
    /\ dcall[v].start_time # dcall[w].start_time
    /\ dcall[v].speaker_durations # << >>
    /\ dcall[v].speaker_durations # dcall[w].speaker_durations

\* the first turn of a label that overlaps the window
FirstOverlapping(turns, label, start_time, end_time) ==
  CHOOSE i \in DOMAIN turns :
    /\ turns[i].label = label
    /\ Max2(start_time, turns[i].start) < Min2(end_time, turns[i].end)
    /\ \A j \in 1..(i - 1) :
         ~ (/\ turns[j].label = label
            /\ Max2(start_time, turns[j].start) < Min2(end_time, turns[j].end))

\* C27: when several labels have the greatest accumulated overlap with the
\* window, the speaker returned is the one of them that comes first in the
\* order of the tracks.
C27_TieFirstInOrder ==
  \A w \in Workers :
    LET best == Dominant(diarization.turns, dcall[w].start_time, dcall[w].end_time)
        First(l) == FirstOverlapping(diarization.turns, l, dcall[w].start_time, dcall[w].end_time)
    IN (dcall[w].pc = "done" /\ Cardinality(best) >= 2) =>
         \E l \in best :
           /\ \A m \in best : First(l) <= First(m)
           /\ dcall[w].speaker = DisplayLabel(l)

\* SPEAKER_01 overlaps the window in the first and the third track,
\* SPEAKER_00 in the second, with the same total: 'Speaker 2' is returned
C27_Witness ==
  \E w \in Workers :
    /\ dcall[w].pc = "done"
    /\ Dominant(diarization.turns, dcall[w].start_time, dcall[w].end_time)
         = {SPEAKER_00, SPEAKER_01}
    /\ Len(diarization.turns) = 3
    /\ diarization.turns[1].label = SPEAKER_01
    /\ diarization.turns[2].label = SPEAKER_00
    /\ diarization.turns[3].label = SPEAKER_01
    /\ dcall[w].speaker = SpeakerNumber(2)

\* where a worker is inside a collaborator: the constructors, transcribe_audio,
\* summarize_text, analyze_situation
InCollaborator == {"construct", "transcribe", "summarize", "judge"}

\* C25: a worker inside a collaborator call does not hold the lock, and when
\* every worker is inside one, get_job_status can take the lock at once, for
\* any id.
C25_LockFreeInCalls ==
  /\ \A w \in Workers : wpc[w] \in InCollaborator => lock # w
  /\ ((\A w \in Workers : wpc[w] \in InCollaborator) /\ rpc = "idle") =>
       \A id \in Ids : ENABLED Lookup(id)

\* get_job_status has returned a Job while both workers are in transcribe_audio
C25_Witness ==
  /\ \A w \in Workers : wpc[w] = "transcribe"
  /\ rpc = "read_status"
  /\ rjob # NoJob

\* where _process_job is about to test 'job_id in self.jobs' (lines 96, 107,
\* 119, 131, 154, 164) or to read self.jobs[job_id] (line 149)
AtTableAccess ==
  {"mark_processing", "set_transcribing", "set_summarizing", "set_analyzing",
   "prepare_result", "complete_status", "fail_status"}

\* C29: a job that is not COMPLETED or FAILED is in the table, so every test
\* and the lookup of _process_job find the job, and no KeyError is raised.
C29_LiveJobInTable ==
  /\ \A j \in DOMAIN objs : objs[j].status \notin Terminal => j \in jobs
  /\ \A i \in DOMAIN queue : queue[i] \in jobs
  /\ \A w \in Workers :
       /\ wpc[w] \in AtTableAccess => wjob[w] \in jobs
       /\ werr[w] # EKey

\* a worker is about to read created_at of its job after a sweep has removed
\* another job
C29_Witness ==
  /\ DOMAIN objs # jobs
  /\ \E w \in Workers : wpc[w] = "prepare_result" /\ wjob[w] \in jobs

\* C30: when a caller hands its job to the pool, no other caller is still
\* holding a job that was stored earlier.
C30_DispatchInStoreOrder ==
  [][\A c \in Callers :
       (cpc[c] = "stored" /\ cpc'[c] = "idle") =>
          \A d \in Callers : cpc[d] = "stored" => cjob[c] <= cjob[d]]_vars
====
